---- MODULE Spec2Model ----
(***************************************************************************)
(* Anderson acceleration (src/src/aa.c): the AaWork record, aa_init,       *)
(* aa_apply (update_accel_params, set_m, solve) and aa_finish.             *)
(*                                                                         *)
(* aa_float values are modelled exactly: the vectors the caller passes are *)
(* small integers, so every difference and inner product is an integer,    *)
(* and the quotients of the LU factorisation are kept as reduced fractions *)
(* <<numerator, denominator>>.                                             *)
(***************************************************************************)
EXTENDS Integers, Sequences, FiniteSets, TLC

\* ------------------------------------------------------------------ bounds
MaxL == 2       \* largest variable dimension l tried
MaxK == 2       \* largest memory aa_mem tried (the smallest is -1)
MaxIter == 3    \* aa_apply is not called again once a->iter reaches this

\* The threshold of solve's norm test.  aa.h sets it; the model takes a
\* small value so that both outcomes of the test occur on small integers.
MAX_AA_NRM == 2

\* ------------------------------------------------ aa_float as exact fractions
Abs(n) == IF n < 0 THEN -n ELSE n

RECURSIVE GCD(_, _)
GCD(a, b) == IF b = 0 THEN a ELSE GCD(b, a % b)

Rat(n, d) ==
    LET gg == GCD(Abs(n), Abs(d))
        sg == IF d < 0 THEN -1 ELSE 1
    IN  <<sg * (n \div gg), sg * (d \div gg)>>

Zero == <<0, 1>>
FromInt(n) == <<n, 1>>
RAdd(p, q) == Rat(p[1] * q[2] + q[1] * p[2], p[2] * q[2])
RSub(p, q) == Rat(p[1] * q[2] - q[1] * p[2], p[2] * q[2])
RMul(p, q) == Rat(p[1] * q[1], p[2] * q[2])
RDiv(p, q) == Rat(p[1] * q[2], p[2] * q[1])
RAbs(p) == <<Abs(p[1]), p[2]>>
RLess(p, q) == p[1] * q[2] < q[1] * p[2]

RECURSIVE RSum(_, _, _)
RSum(F, lo, hi) == IF lo > hi THEN Zero ELSE RAdd(F[lo], RSum(F, lo + 1, hi))

RECURSIVE ISum(_, _, _)
ISum(F, lo, hi) == IF lo > hi THEN 0 ELSE F[lo] + ISum(F, lo + 1, hi)

\* a calloc'ed buffer of n aa_floats / of cols columns of n aa_floats
ZeroVec(n) == [i \in 0 .. n - 1 |-> 0]
ZeroMat(n, cols) == [j \in 0 .. cols - 1 |-> ZeroVec(n)]
ZeroRVec(n) == [i \in 0 .. n - 1 |-> Zero]
ZeroRMat(n) == [i \in 0 .. n - 1 |-> ZeroRVec(n)]
RVec(v) == [i \in DOMAIN v |-> FromInt(v[i])]

\* ------------------------------------------------------------ BLAS routines
\* axpy with alpha = -1:  y <- y - x
axpy_neg(xx, yy) == [i \in DOMAIN yy |-> yy[i] - xx[i]]

\* gemm("Trans", "No", k, k, l, 1, A, l, B, l, 0, C, k):  C <- A' B
gemm_tn(A, B, kk, ll) ==
    [i \in 0 .. kk - 1 |->
        [j \in 0 .. kk - 1 |->
            FromInt(ISum([r \in 0 .. ll - 1 |-> A[i][r] * B[j][r]], 0, ll - 1))]]

\* gemv("Trans", l, len, 1, A, l, g, 1, 0, w, 1): the first len entries of w
\* become A(:, 0 .. len-1)' g, the others are not touched
gemv_t(A, gg, w, len, ll) ==
    [j \in DOMAIN w |->
        IF j < len
        THEN FromInt(ISum([r \in 0 .. ll - 1 |-> A[j][r] * gg[r]], 0, ll - 1))
        ELSE w[j]]

\* gemv("NoTrans", l, len, -1, D, l, w, 1, 1, f, 1):  f <- f - D(:, 0 .. len-1) w
gemv_n_neg(DD, w, ff, len) ==
    [i \in DOMAIN ff |->
        RSub(ff[i], RSum([j \in 0 .. len - 1 |-> RMul(FromInt(DD[j][i]), w[j])],
                         0, len - 1))]

\* nrm2(n, w, 1) squared
nrm2sq(n, w) == RSum([j \in 0 .. n - 1 |-> RMul(w[j], w[j])], 0, n - 1)

\* first row index in j .. n-1 whose entry in column j is largest in modulus
PivotRow(A, j, n) ==
    CHOOSE p \in j .. n - 1 :
        /\ \A i \in j .. n - 1 : ~RLess(RAbs(A[p][j]), RAbs(A[i][j]))
        /\ \A i \in j .. p - 1 : RLess(RAbs(A[i][j]), RAbs(A[p][j]))

SwapRows(A, i1, i2, n) ==
    [i \in DOMAIN A |->
        [c \in DOMAIN A[i] |->
            IF c < n /\ i = i1 THEN A[i2][c]
            ELSE IF c < n /\ i = i2 THEN A[i1][c]
            ELSE A[i][c]]]

\* LU factorisation with partial pivoting of the leading n x n block of A,
\* columns j .. n-1 left to do; info is the first zero pivot (1-based) or 0
RECURSIVE getrf(_, _, _, _, _)
getrf(A, piv, info, j, n) ==
    IF j >= n THEN [A |-> A, ipiv |-> piv, info |-> info]
    ELSE
        LET jp == PivotRow(A, j, n)
            nz == A[jp][j] # Zero
            A1 == IF nz THEN SwapRows(A, j, jp, n) ELSE A
            A2 == [i \in DOMAIN A1 |->
                     [c \in DOMAIN A1[i] |->
                        IF nz /\ c = j /\ i > j /\ i < n
                        THEN RDiv(A1[i][j], A1[j][j])
                        ELSE A1[i][c]]]
            A3 == [i \in DOMAIN A2 |->
                     [c \in DOMAIN A2[i] |->
                        IF i > j /\ i < n /\ c > j /\ c < n
                        THEN RSub(A2[i][c], RMul(A2[i][j], A2[j][c]))
                        ELSE A2[i][c]]]
        IN  getrf(A3, [piv EXCEPT ![j] = jp + 1],
                  IF ~nz /\ info = 0 THEN j + 1 ELSE info, j + 1, n)

\* the row interchanges of the factorisation applied to the right-hand side
RECURSIVE laswp(_, _, _, _)
laswp(b, piv, j, n) ==
    IF j >= n THEN b
    ELSE laswp([b EXCEPT ![j] = b[piv[j] - 1], ![piv[j] - 1] = b[j]], piv, j + 1, n)

\* forward substitution with the unit lower triangle
RECURSIVE trsv_l(_, _, _, _)
trsv_l(A, b, i, n) ==
    IF i >= n THEN b
    ELSE trsv_l(A, [b EXCEPT ![i] =
                      RSub(b[i], RSum([c \in 0 .. i - 1 |-> RMul(A[i][c], b[c])],
                                      0, i - 1))],
                i + 1, n)

\* back substitution with the upper triangle, rows i, i-1, .., 0
RECURSIVE trsv_u(_, _, _, _)
trsv_u(A, b, i, n) ==
    IF i < 0 THEN b
    ELSE trsv_u(A, [b EXCEPT ![i] =
                      RDiv(RSub(b[i], RSum([c \in i + 1 .. n - 1 |-> RMul(A[i][c], b[c])],
                                           i + 1, n - 1)),
                           A[i][i])],
                i - 1, n)

\* gesv(n, 1, A, lda, ipiv, b, n, info): A's leading n x n block is replaced by
\* its factors; b is replaced by the solution only when info = 0
gesv(n, A, piv, b) ==
    LET lu == getrf(A, piv, 0, 0, n)
    IN  [A |-> lu.A, ipiv |-> lu.ipiv, info |-> lu.info,
         b |-> IF lu.info = 0
               THEN trsv_u(lu.A, trsv_l(lu.A, laswp(b, lu.ipiv, 0, n), 0, n), n - 1, n)
               ELSE b]

\* ------------------------------------------------------------------ state
VARIABLES
    pc,         \* "null": aa_init returned 0; "live"; "fault": a null buffer was
                \* dereferenced; "freed": after aa_finish
    a,          \* the AaWork record
    alloc,      \* the buffers of a whose calloc succeeded (non-null pointers)
    hist,       \* the aa_apply calls that returned, in order: [x, f, ret]
    out_f,      \* the caller's f when the last aa_apply returned
    solve_len,  \* len passed to solve in the last aa_apply, -1 if solve was not called
    gesv_n,     \* order n of the system given to gesv, -1 if none
    gesv_info,  \* info set by gesv, -1 if none
    applied     \* TRUE iff the last aa_apply executed f -= D * work

vars == <<pc, a, alloc, hist, out_f, solve_len, gesv_n, gesv_info, applied>>

\* number of aa_apply calls that returned; the next call is call number calls
calls == Len(hist)
\* arguments and return value of the last call
arg_x == hist[calls].x
arg_f == hist[calls].f
ret == hist[calls].ret

\* the buffers aa_init allocates after the record itself
Buffers == {"x", "f", "g", "g_prev", "y", "s", "d", "Y", "S", "D", "M", "work", "ipiv"}

\* the buffers update_accel_params and set_m touch; solve adds work and ipiv
UpdateBuffers == Buffers \ {"work", "ipiv"}

\* what calloc may refuse in one aa_init: nothing, the record, or one buffer
AllocFailures == {{}} \cup {{b} : b \in Buffers \cup {"a"}}

\* the vectors a caller passes: zero, the first unit vector, and all ones
Points(ll) ==
    {ZeroVec(ll), [i \in 0 .. ll - 1 |-> IF i = 0 THEN 1 ELSE 0], [i \in 0 .. ll - 1 |-> 1]}

\* ---------------------------------------------------------------- aa_init
\* the record after aa_init(l, aa_mem, type1); fields of buffers that were
\* not allocated (aa_mem <= 0, or calloc failed) are empty
aa_init(ll, aa_mem, t1, failed) ==
    LET on(b, v) == IF aa_mem > 0 /\ b \notin failed THEN v ELSE <<>>
    IN  [type1 |-> t1, iter |-> 0, l |-> ll, k |-> aa_mem,
         x |-> on("x", ZeroVec(ll)), f |-> on("f", ZeroVec(ll)),
         g |-> on("g", ZeroVec(ll)), g_prev |-> on("g_prev", ZeroVec(ll)),
         y |-> on("y", ZeroVec(ll)), s |-> on("s", ZeroVec(ll)),
         d |-> on("d", ZeroVec(ll)),
         Y |-> on("Y", ZeroMat(ll, aa_mem)), S |-> on("S", ZeroMat(ll, aa_mem)),
         D |-> on("D", ZeroMat(ll, aa_mem)),
         M |-> on("M", ZeroRMat(aa_mem)),
         work |-> on("work", ZeroRVec(aa_mem)),
         ipiv |-> on("ipiv", ZeroVec(aa_mem))]

\* the pointers that are non-null when aa_init returns a record
aa_init_alloc(aa_mem, failed) == IF aa_mem <= 0 THEN {} ELSE Buffers \ failed

\* aa_init returns 0 only when the calloc of the record itself fails
aa_init_null(failed) == "a" \in failed

Init ==
    \E ll \in 1 .. MaxL, aa_mem \in -1 .. MaxK, t1 \in {0, 1}, failed \in AllocFailures :
        /\ pc = IF aa_init_null(failed) THEN "null" ELSE "live"
        /\ a = aa_init(ll, aa_mem, t1, IF aa_init_null(failed) THEN Buffers ELSE failed)
        /\ alloc = IF aa_init_null(failed) THEN {} ELSE aa_init_alloc(aa_mem, failed)
        /\ hist = <<>>
        /\ out_f = ZeroRVec(ll)
        /\ solve_len = -1
        /\ gesv_n = -1
        /\ gesv_info = -1
        /\ applied = FALSE

\* ------------------------------------------------------ update_accel_params
\* faulty variant: the column index taken after the increment of iter
idx_of_next(w) == (w.iter + 1) % w.k

\* column of Y, S, D written in this call
idx_of(w) == w.iter % w.k

\* M <- S'Y (type 1) or Y'Y (type 2), all k columns
set_m(w) == [w EXCEPT !.M = gemm_tn(IF w.type1 # 0 THEN w.S ELSE w.Y, w.Y, w.k, w.l)]

\* faulty variant: a->f is not refreshed from the f passed in
update_accel_params_stale(xx, ff, w) ==
    LET idx == idx_of(w)
        gg == axpy_neg(ff, xx)
        ss == axpy_neg(w.x, xx)
        dd == axpy_neg(w.f, ff)
        yy == axpy_neg(w.g_prev, gg)
        w1 == [w EXCEPT !.g = gg, !.s = ss, !.d = dd, !.y = yy,
                        !.Y[idx] = yy, !.S[idx] = ss, !.D[idx] = dd,
                        !.x = xx]
    IN  [set_m(w1) EXCEPT !.g_prev = gg]

update_accel_params(xx, ff, w) ==
    LET idx == idx_of(w)
        gg == axpy_neg(ff, xx)          \* g = x - f
        ss == axpy_neg(w.x, xx)         \* s = x - x_prev
        dd == axpy_neg(w.f, ff)         \* d = f - f_prev
        yy == axpy_neg(w.g_prev, gg)    \* y = g - g_prev
        w1 == [w EXCEPT !.g = gg, !.s = ss, !.d = dd, !.y = yy,
                        !.Y[idx] = yy, !.S[idx] = ss, !.D[idx] = dd,
                        !.f = ff, !.x = xx]
    IN  [set_m(w1) EXCEPT !.g_prev = gg]

\* ------------------------------------------------------------------ solve
\* the rejection test of solve: info < 0 || nrm >= MAX_AA_NRM
solve_rejects(info, nrmsq) ==
    info < 0 \/ ~RLess(nrmsq, FromInt(MAX_AA_NRM * MAX_AA_NRM))

\* faulty variant: gesv given bk instead of blen
solve_order_full(w, len) == w.k

\* order of the system handed to gesv: blen
solve_order(w, len) == len

\* faulty variant: a rejected solve clears Y and restarts the iteration count
solve_restart(ff, w, len) ==
    LET rhs == gemv_t(IF w.type1 # 0 THEN w.S ELSE w.Y, w.g, w.work, len, w.l)
        n   == solve_order(w, len)
        r   == gesv(n, w.M, w.ipiv, rhs)
        rej == solve_rejects(r.info, nrm2sq(w.k, r.b))
        w1  == [w EXCEPT !.M = r.A, !.ipiv = r.ipiv, !.work = r.b,
                         !.iter = IF rej THEN 0 ELSE w.iter,
                         !.Y = IF rej THEN ZeroMat(w.l, w.k) ELSE w.Y]
    IN  [a |-> w1,
         f |-> IF rej THEN ff ELSE gemv_n_neg(w.D, r.b, ff, len),
         ret |-> IF rej THEN -1 ELSE r.info,
         len |-> len, n |-> n, info |-> r.info, applied |-> ~rej]

solve(ff, w, len) ==
    LET rhs == gemv_t(IF w.type1 # 0 THEN w.S ELSE w.Y, w.g, w.work, len, w.l)
        n   == solve_order(w, len)
        r   == gesv(n, w.M, w.ipiv, rhs)
        w1  == [w EXCEPT !.M = r.A, !.ipiv = r.ipiv, !.work = r.b]
        rej == solve_rejects(r.info, nrm2sq(w.k, r.b))
    IN  [a |-> w1,
         f |-> IF rej THEN ff ELSE gemv_n_neg(w.D, r.b, ff, len),
         ret |-> IF rej THEN -1 ELSE r.info,
         len |-> len, n |-> n, info |-> r.info, applied |-> ~rej]

\* --------------------------------------------------------------- aa_apply
\* len passed to solve: MIN(a->iter - 1, a->k) after the increment
solve_length(w) == IF w.iter - 1 < w.k THEN w.iter - 1 ELSE w.k

\* faulty variant: iter is incremented before the k <= 0 test
aa_apply_count_first(ff, xx, w) ==
    LET w0 == [w EXCEPT !.iter = w.iter + 1]
    IN  IF w.k <= 0
        THEN [a |-> w0, f |-> RVec(ff), ret |-> 0, len |-> -1, n |-> -1, info |-> -1,
              applied |-> FALSE]
        ELSE
            LET w1 == update_accel_params(xx, ff, w)
                w2 == [w1 EXCEPT !.iter = w1.iter + 1]
            IN  IF w1.iter = 0
                THEN [a |-> w2, f |-> RVec(ff), ret |-> 0, len |-> -1, n |-> -1,
                      info |-> -1, applied |-> FALSE]
                ELSE solve(RVec(ff), w2, solve_length(w2))

\* faulty variant: a rejected step does not count in iter
aa_apply_count_accepted(ff, xx, w) ==
    IF w.k <= 0
    THEN [a |-> w, f |-> RVec(ff), ret |-> 0, len |-> -1, n |-> -1, info |-> -1,
          applied |-> FALSE]
    ELSE
        LET w1 == update_accel_params(xx, ff, w)
            w2 == [w1 EXCEPT !.iter = w1.iter + 1]
            r  == solve(RVec(ff), w2, solve_length(w2))
        IN  IF w1.iter = 0
            THEN [a |-> w2, f |-> RVec(ff), ret |-> 0, len |-> -1, n |-> -1,
                  info |-> -1, applied |-> FALSE]
            ELSE IF r.ret < 0 THEN [r EXCEPT !.a.iter = w1.iter] ELSE r

aa_apply(ff, xx, w) ==
    IF w.k <= 0
    THEN [a |-> w, f |-> RVec(ff), ret |-> 0, len |-> -1, n |-> -1, info |-> -1,
          applied |-> FALSE]
    ELSE
        LET w1 == update_accel_params(xx, ff, w)
            w2 == [w1 EXCEPT !.iter = w1.iter + 1]
        IN  IF w1.iter = 0
            THEN [a |-> w2, f |-> RVec(ff), ret |-> 0, len |-> -1, n |-> -1,
                  info |-> -1, applied |-> FALSE]
            ELSE solve(RVec(ff), w2, solve_length(w2))

\* the buffers a call dereferences
apply_needs(w) ==
    IF w.k <= 0 THEN {} ELSE IF w.iter = 0 THEN UpdateBuffers ELSE Buffers

\* aa_apply(f, x, a) runs to its return
aa_apply_call ==
    /\ pc = "live"
    /\ calls < MaxIter
    /\ apply_needs(a) \subseteq alloc
    /\ \E xx \in Points(a.l), ff \in Points(a.l) :
        \E r \in {aa_apply(ff, xx, a)} :
            /\ a' = r.a
            /\ hist' = Append(hist, [x |-> xx, f |-> ff, ret |-> r.ret])
            /\ out_f' = r.f
            /\ solve_len' = r.len
            /\ gesv_n' = r.n
            /\ gesv_info' = r.info
            /\ applied' = r.applied
    /\ UNCHANGED <<pc, alloc>>

\* aa_apply on a record with a null buffer: memcpy or BLAS dereferences it
aa_apply_fault ==
    /\ pc = "live"
    /\ calls < MaxIter
    /\ ~(apply_needs(a) \subseteq alloc)
    /\ pc' = "fault"
    /\ UNCHANGED <<a, alloc, hist, out_f, solve_len, gesv_n, gesv_info, applied>>

\* aa_finish(a): frees every non-null buffer and the record; a no-op on 0
aa_finish ==
    /\ pc \in {"live", "null"}
    /\ pc' = IF pc = "live" THEN "freed" ELSE pc
    /\ alloc' = {}
    /\ UNCHANGED <<a, hist, out_f, solve_len, gesv_n, gesv_info, applied>>

Next == aa_apply_call \/ aa_apply_fault \/ aa_finish

Spec == Init /\ [][Next]_vars

\* ---------------------------------------------------------------- claims
\* a record exists and at least one aa_apply on it returned
Called == pc # "null" /\ calls > 0
Min(m, n) == IF m < n THEN m ELSE n

\* C1: on an instance constructed with k <= 0, every aa_apply, after any
\* number of earlier ones, returns 0, leaves the caller's f as passed in and
\* leaves the record as aa_init made it (iter 0, no buffer allocated or written).
C1_DisabledIsNoOp ==
    (pc # "null" /\ a.k <= 0) =>
        /\ a = aa_init(a.l, a.k, a.type1, {})
        /\ a.iter = 0
        /\ alloc = {}
        /\ \A b \in Buffers : a[b] = <<>>
        /\ \A n \in 1 .. calls : hist[n].ret = 0
        /\ calls > 0 => out_f = RVec(arg_f)
        /\ solve_len = -1 /\ ~applied

C1_Witness ==
    /\ Called /\ a.k <= 0 /\ calls >= 2
    /\ arg_f # ZeroVec(a.l) /\ arg_x # arg_f /\ hist[1].f # arg_f

\* C2: the first aa_apply on a fresh instance with k > 0 returns 0, leaves the
\* caller's f as passed in, calls no solve, sets iter to 1 and leaves a->x and
\* a->f equal to the x and f passed in.
C2_FirstCallIsWarmup ==
    (Called /\ a.k > 0 /\ calls = 1) =>
        /\ ret = 0
        /\ out_f = RVec(arg_f)
        /\ solve_len = -1 /\ gesv_n = -1 /\ gesv_info = -1 /\ ~applied
        /\ a.iter = 1
        /\ a.x = arg_x
        /\ a.f = arg_f
        /\ "work" \in alloc => a.work = ZeroRVec(a.k)

C2_Witness ==
    /\ Called /\ a.k > 0 /\ calls = 1
    /\ arg_f # ZeroVec(a.l) /\ arg_x # ZeroVec(a.l) /\ arg_x # arg_f

\* C3: at every post-warmup aa_apply, if gesv reports a singular factorisation
\* (info # 0) or the norm of the weights is >= MAX_AA_NRM, the call returns a
\* negative value and the caller's f is as passed in; f is corrected only when
\* the factorisation was non-singular and the norm is below the threshold.
C3_SingularOrLargeIsRejected ==
    (Called /\ a.k > 0 /\ solve_len >= 0) =>
        LET bad == gesv_info # 0
                     \/ ~RLess(nrm2sq(a.k, a.work), FromInt(MAX_AA_NRM * MAX_AA_NRM))
        IN  /\ bad => (ret < 0 /\ ~applied /\ out_f = RVec(arg_f))
            /\ applied => ~bad

\* C4: every record aa_init returns with k > 0 has all of its buffers allocated
\* (aa_init returns 0 when any calloc fails).
C4_NonNullHandleIsComplete ==
    (pc = "live" /\ a.k > 0 /\ calls = 0) => alloc = Buffers

\* C5: with k > 0, call number n writes its y, s, d into column n mod k of
\* Y, S, D and changes no other column.
C5_CallWritesColumnNModK ==
    [][(calls' = calls + 1 /\ a.k > 0) =>
          LET n == calls
              col == n % a.k
              gn == axpy_neg(arg_f', arg_x')
          IN  /\ a'.Y[col] = axpy_neg(a.g_prev, gn)
              /\ a'.S[col] = axpy_neg(a.x, arg_x')
              /\ a'.D[col] = axpy_neg(a.f, arg_f')
              /\ a'.Y[col] = a'.y /\ a'.S[col] = a'.s /\ a'.D[col] = a'.d
              /\ \A j \in 0 .. a.k - 1 :
                    j # col => (a'.Y[j] = a.Y[j] /\ a'.S[j] = a.S[j] /\ a'.D[j] = a.D[j])
    ]_vars

\* call k (the k+1st) has overwritten the column call 0 wrote, with other contents
C5_Witness ==
    /\ Called /\ a.k = 2 /\ calls = 3
    /\ a.S[0] = axpy_neg(hist[2].x, hist[3].x)
    /\ a.S[0] # hist[1].x
    /\ a.S[1] = axpy_neg(hist[1].x, hist[2].x)
    /\ a.S[1] # ZeroVec(a.l)

\* C6: iter is 0 after aa_init, grows by exactly 1 in every aa_apply on an
\* instance with k > 0 (warmup, accepted and rejected alike), never changes on
\* an instance with k <= 0, never decreases, and l, k, type1 never change.
C6_IterCountsCalls ==
    /\ (calls = 0 => a.iter = 0)
    /\ [][/\ a'.l = a.l /\ a'.k = a.k /\ a'.type1 = a.type1
          /\ a'.iter >= a.iter
          /\ (calls' = calls + 1) => a'.iter = a.iter + (IF a.k > 0 THEN 1 ELSE 0)
          /\ (calls' = calls) => a'.iter = a.iter
       ]_vars

\* a rejected, an accepted and the warmup call have each counted
C6_Witness ==
    /\ Called /\ a.k > 0 /\ calls = 3 /\ a.iter = 3
    /\ hist[2].ret = -1 /\ hist[3].ret = 0 /\ applied

\* C7 as stated: every post-warmup solve hands gesv the whole k x k system.
C7_SolveIsFullOrder ==
    (Called /\ a.k > 0 /\ solve_len >= 0) => gesv_n = a.k

\* C7 amended: gesv is given the order len = min(iter at entry, k): it
\* factors the leading len x len block of M and solves for a right-hand side
\* of length len; the rest of M and of work is not touched by the solve.
C7_SolveIsLeadingBlock ==
    (Called /\ a.k > 0 /\ calls >= 2) =>
        /\ gesv_n = Min(calls - 1, a.k)
        /\ solve_len = gesv_n
        /\ \A i \in 0 .. a.k - 1 : \A j \in 0 .. a.k - 1 :
              (i >= gesv_n \/ j >= gesv_n) => a.M[i][j] = set_m(a).M[i][j]
        /\ \A j \in gesv_n .. a.k - 1 : a.work[j] = Zero /\ a.ipiv[j] = 0

\* a solve of order 1 with k = 2, on a Gram matrix whose second row is not zero
C7_Witness ==
    /\ Called /\ a.k = 2 /\ calls = 2 /\ gesv_n = 1
    /\ a.M[1][1] # Zero /\ gesv_info = 0 /\ applied

\* every call so far was passed f = x
AllIdentity == \A n \in 1 .. calls : hist[n].f = hist[n].x

\* C8: if f = x on every call (k > 0), every call after the first returns a
\* negative value and leaves the caller's f equal to x.
C8_IdentityMapIsRejected ==
    (Called /\ a.k > 0 /\ AllIdentity) =>
        \A n \in 2 .. calls : hist[n].ret < 0 /\ (n = calls => out_f = RVec(arg_x))

\* --- the history a sequence of calls determines, for C9
\* g, s, d, y of call number n (0-based) from the arguments alone
HistG(n) == IF n < 0 THEN ZeroVec(a.l) ELSE axpy_neg(hist[n + 1].f, hist[n + 1].x)
HistX(n) == IF n < 0 THEN ZeroVec(a.l) ELSE hist[n + 1].x
HistF(n) == IF n < 0 THEN ZeroVec(a.l) ELSE hist[n + 1].f
\* the last call that wrote column j, -1 if none
LastWriter(j) ==
    IF \E n \in 0 .. calls - 1 : n % a.k = j
    THEN CHOOSE n \in 0 .. calls - 1 :
            n % a.k = j /\ \A m \in n + 1 .. calls - 1 : m % a.k # j
    ELSE -1

\* C9: a rejected step loses no history and is not terminal: after any
\* sequence of calls on an instance with k > 0, the columns of Y, S, D, the
\* snapshots a->x, a->f (f as passed in), a->g_prev and iter are those the
\* (x, f) arguments determine, whatever the solves returned; and every call
\* after the first attempts a solve, also the one after a rejected step.
C9_HistoryIgnoresSolveOutcome ==
    (Called /\ a.k > 0) =>
        /\ a.iter = calls
        /\ a.x = arg_x /\ a.f = arg_f /\ a.g_prev = axpy_neg(arg_f, arg_x)
        /\ \A j \in 0 .. a.k - 1 :
              LET n == LastWriter(j)
              IN  IF n < 0
                  THEN a.Y[j] = ZeroVec(a.l) /\ a.S[j] = ZeroVec(a.l)
                         /\ a.D[j] = ZeroVec(a.l)
                  ELSE /\ a.Y[j] = axpy_neg(HistG(n - 1), HistG(n))
                       /\ a.S[j] = axpy_neg(HistX(n - 1), HistX(n))
                       /\ a.D[j] = axpy_neg(HistF(n - 1), HistF(n))
        /\ calls >= 2 => (solve_len >= 0 /\ gesv_n >= 0)

\* the call after a rejected step solved and corrected f
C9_Witness ==
    /\ Called /\ a.k > 0 /\ calls = 3
    /\ hist[2].ret = -1
    /\ ret = 0 /\ applied /\ gesv_info = 0 /\ out_f # RVec(arg_f)

\* C10: at every post-warmup step the columns 0 .. len-1 the solve reads are
\* exactly the columns written up to and including this call, so the column
\* this call wrote is among them.
C10_LenColumnsAreTheWrittenOnes ==
    (Called /\ a.k > 0 /\ solve_len >= 0) =>
        /\ 0 .. solve_len - 1 = {n % a.k : n \in 0 .. calls - 1}
        /\ (calls - 1) % a.k < solve_len

====
